---- MODULE Spec2Model ----
(***************************************************************************)
(* Model of scarb's `Config` (scarb/src/core/config.rs): construction,     *)
(* the two OnceCell caches (`app_exe`, `package_cache_lock`), the offline  *)
(* flag and the path accessors, driven by a small set of threads and a     *)
(* process environment that may change between calls.                      *)
(***************************************************************************)
EXTENDS Integers, Sequences, FiniteSets, TLC

(***************************************************************************)
(* Bounds of the model.                                                    *)
(***************************************************************************)
NumThreads == 2
MaxCalls == 2
\* The monotonic clock is followed up to this reading.
MaxTime == 3

Threads == 1..NumThreads

(***************************************************************************)
(* Option values: None is the empty sequence, Some(x) a one-element one.   *)
(***************************************************************************)
None == <<>>
Some(x) == <<x>>
IsSome(o) == Len(o) = 1
Unwrap(o) == o[1]

(***************************************************************************)
(* Paths are sequences of components; "/" is the root component and "."    *)
(* the current-directory component.                                        *)
(***************************************************************************)
DEFAULT_TARGET_DIR_NAME == "target"

IsAbsolute(p) == Len(p) > 0 /\ p[1] = "/"

\* Utf8Path::parent: None for the empty path and for a path that ends in
\* the root, otherwise the path without its final component.
Parent(p) ==
    IF Len(p) = 0 \/ p[Len(p)] = "/" THEN None ELSE Some(SubSeq(p, 1, Len(p) - 1))

\* Utf8Path::join with a relative path.
Join(p, q) == p \o q

(***************************************************************************)
(* The file system the process sees: regular files and symbolic links.     *)
(***************************************************************************)
Files == { <<"/", "bin", "scarb">>, <<"/", "opt", "scarb">> }

SymlinkSources == { <<"/", "link", "scarb">>, <<"/", "w", "scarb">> }
SymlinkTarget(p) == <<"/", "opt", "scarb">>

\* Removal of the "." components of a path.
RECURSIVE DropCurDir(_)
DropCurDir(p) ==
    IF Len(p) = 0 THEN <<>>
    ELSE IF p[1] = "." THEN DropCurDir(Tail(p))
    ELSE <<p[1]>> \o DropCurDir(Tail(p))

\* The file an absolute path names, if any: "." components are removed and
\* a symbolic link is followed.
ResolveFile(p) ==
    LET n == DropCurDir(p)
        r == IF n \in SymlinkSources THEN SymlinkTarget(n) ELSE n
    IN IF r \in Files THEN Some(r) ELSE None

(***************************************************************************)
(* Results and errors.  An anyhow error is its chain of messages,          *)
(* outermost context first; every message carries the closure that raised  *)
(* it.                                                                     *)
(***************************************************************************)
Ok(v) == [ok |-> TRUE, val |-> v, err |-> <<>>]
Err(src, msg) == [ok |-> FALSE, val |-> <<>>, err |-> << [src |-> src, msg |-> msg] >>]

\* anyhow::Context::context: wraps the error of a failed result.
Context(r, src, msg) ==
    IF r.ok THEN r
    ELSE [ok |-> FALSE, val |-> <<>>, err |-> << [src |-> src, msg |-> msg] >> \o r.err]

\* Path::canonicalize: a relative path is taken against the working
\* directory; the result is the file the path names, free of "." and links.
Canonicalize(p, wd, src) ==
    IF ~IsAbsolute(p) /\ ~IsSome(wd) THEN Err(src, "canonicalize: no working directory")
    ELSE LET a == IF IsAbsolute(p) THEN p ELSE Join(Unwrap(wd), p)
             f == ResolveFile(a)
         IN IF IsSome(f) THEN Ok(Unwrap(f)) ELSE Err(src, "canonicalize: not found")

\* which::which_in: a name of several components is looked up against the
\* working directory alone, a bare name in the directories of `paths`, in
\* order; the candidate that names a file is returned as built.
RECURSIVE PathSearch(_, _)
PathSearch(name, paths) ==
    IF Len(paths) = 0 THEN None
    ELSE IF IsSome(ResolveFile(Join(paths[1], name))) THEN Some(Join(paths[1], name))
    ELSE PathSearch(name, Tail(paths))

WhichIn(name, paths, wd, src) ==
    LET found == IF Len(name) > 1
                 THEN LET c == IF IsAbsolute(name) THEN name ELSE Join(wd, name)
                      IN IF IsSome(ResolveFile(c)) THEN Some(c) ELSE None
                 ELSE PathSearch(name, paths)
    IN IF IsSome(found) THEN Ok(Unwrap(found)) ELSE Err(src, "cannot find binary path")

(***************************************************************************)
(* Values the environment and the inputs of init() range over.             *)
(***************************************************************************)
ScarbEnvValues == { None, Some(<<"/", "link", "scarb">>), Some(<<"/", "gone", "scarb">>) }
CurrentExeValues == { None, Some(<<"/", "bin", "scarb">>) }
Argv0Values == { None, Some(<<"scarb">>), Some(<<".", "scarb">>) }
CwdValues == { None, Some(<<"/", "w">>) }
PathEnvValues == { << <<"/", "usr", "bin">>, <<"/", "opt">>, <<"/", "bin">> >> }
ManifestPaths == { <<"/", "proj", "Scarb.toml">>, <<"/">> }
TargetDirOverrides == { None, Some(<<"/", "out">>) }
ScarbLogValues == { None, Some("debug") }

VARIABLES
    phase,              \* "uninit", "ready" (init returned Ok), "panicked" or "dropped"
    manifest_path,      \* init's manifest_path argument, then Config.manifest_path
    target_dir_override,\* init's target_dir_override argument
    dirs,               \* Config.dirs: the search path of AppDirs::path_env
    target_dir,         \* Config.target_dir: Some(root of the output tree)
    app_exe,            \* Config.app_exe: state and value of the OnceCell
    package_cache_lock, \* Config.package_cache_lock: state and value
    offline,            \* Config.offline
    envScarb,           \* the value of $SCARB
    currentExe,         \* what env::current_exe reports
    argv0,              \* env::args_os().next()
    cwd,                \* env::current_dir
    pc,                 \* where each thread is inside a call
    started,            \* per thread in a call: calls of that kind returned when it began
    exeLog,             \* the returned calls of app_exe, in order of return
    lockLog,            \* the returned calls of package_cache_lock, in order of return
    locksMade,          \* AdvisoryLock objects constructed so far
    lastSet,            \* argument of the latest set_offline, if any
    creation_time,      \* Config.creation_time
    scarb_log,          \* Config.scarb_log
    envScarbLog,        \* the value of $SCARB_LOG
    now,                \* the monotonic clock read by Instant::now
    elapsedLog,         \* the returned calls of elapsed_time, in order
    held,               \* per thread: the lock handle it holds a reference to, or 0
    lastUse,            \* the latest use of a lock handle through such a reference
    other               \* a second Config of the same process

cfgVars == <<phase, manifest_path, target_dir_override, dirs, target_dir, creation_time, scarb_log>>
envVars == <<envScarb, currentExe, argv0, cwd>>
cellVars == <<app_exe, package_cache_lock, locksMade>>
callVars == <<pc, started, exeLog, lockLog>>
flagVars == <<offline, lastSet>>
auxVars == <<envScarbLog, now, elapsedLog, held, lastUse, other>>
vars == <<cfgVars, envVars, cellVars, callVars, flagVars, auxVars>>

\* OnceCell::new()
EmptyCell == [state |-> "INCOMPLETE", value |-> None]

\* A Config that init() has just returned, seen from outside: both cells
\* empty, not offline.
FreshConfig == [app_exe |-> EmptyCell, package_cache_lock |-> EmptyCell, offline |-> FALSE]

\* The program before init() is called: its arguments and the environment
\* are chosen, no call has been made.
InitCore ==
    /\ phase = "uninit"
    /\ manifest_path \in ManifestPaths
    /\ target_dir_override \in TargetDirOverrides
    /\ dirs \in PathEnvValues
    /\ target_dir = None
    /\ app_exe = EmptyCell
    /\ package_cache_lock = EmptyCell
    /\ offline = FALSE
    /\ envScarb \in ScarbEnvValues
    /\ currentExe \in CurrentExeValues
    /\ argv0 \in Argv0Values
    /\ cwd \in CwdValues
    /\ pc = [t \in Threads |-> "idle"]
    /\ started = [t \in Threads |-> 0]
    /\ exeLog = <<>>
    /\ lockLog = <<>>
    /\ locksMade = 0
    /\ lastSet = None
    /\ creation_time = 0
    /\ scarb_log = ""
    /\ elapsedLog = <<>>
    /\ held = [t \in Threads |-> 0]
    /\ lastUse = None
    /\ other = FreshConfig

Init ==
    /\ InitCore
    /\ envScarbLog = None
    /\ now = 0

(***************************************************************************)
(* Config::init                                                            *)
(***************************************************************************)
\* A bug: the default directory name is appended to the override too.
TargetDirForJoined(manifest, override) ==
    LET base == IF IsSome(override) THEN override ELSE Parent(manifest)
    IN IF IsSome(base) THEN Some(Join(Unwrap(base), <<DEFAULT_TARGET_DIR_NAME>>)) ELSE None

\* The argument of RootFilesystem::new_output_dir: the override, or else
\* parent(manifest_path)/DEFAULT_TARGET_DIR_NAME; None when the `expect`
\* on the parent panics.
TargetDirFor(manifest, override) ==
    IF IsSome(override) THEN override
    ELSE IF IsSome(Parent(manifest))
         THEN Some(Join(Unwrap(Parent(manifest)), <<DEFAULT_TARGET_DIR_NAME>>))
         ELSE None

\* env::var("SCARB_LOG").unwrap_or_default()
ScarbLogFor(v) == IF IsSome(v) THEN Unwrap(v) ELSE ""

ConfigInit ==
    /\ phase = "uninit"
    /\ LET td == TargetDirFor(manifest_path, target_dir_override)
       IN /\ phase' = IF IsSome(td) THEN "ready" ELSE "panicked"
          /\ target_dir' = td
    /\ app_exe' = EmptyCell
    /\ package_cache_lock' = EmptyCell
    /\ offline' = FALSE
    /\ creation_time' = now
    /\ scarb_log' = ScarbLogFor(envScarbLog)
    /\ UNCHANGED <<manifest_path, target_dir_override, dirs>>
    /\ UNCHANGED <<envVars, callVars, locksMade, lastSet, auxVars>>

(***************************************************************************)
(* The accessors.                                                          *)
(***************************************************************************)
\* Config::manifest_path
ManifestPath == manifest_path

\* What an accessor that may panic gives its caller.
Returned(v) == [panic |-> FALSE, val |-> v]
Panicked == [panic |-> TRUE, val |-> <<>>]

\* A bug: the manifest path itself is taken for the root.
RootKeepsFile == Returned(ManifestPath)

\* Config::root: the parent of the manifest path; `expect` panics when
\* there is none.
Root ==
    IF IsSome(Parent(ManifestPath)) THEN Returned(Unwrap(Parent(ManifestPath))) ELSE Panicked

\* Config::target_dir
TargetDir == target_dir

\* Config::offline
Offline == offline

\* Config::network_allowed
NetworkAllowed == ~Offline

\* A bug: the flag can be raised but not lowered.
SetOfflineSticky(b) ==
    /\ phase = "ready"
    /\ \A t \in Threads : pc[t] = "idle"
    /\ offline' = (offline \/ b)
    /\ lastSet' = Some(b)
    /\ UNCHANGED <<cfgVars, envVars, cellVars, callVars, auxVars>>

\* A bug: switching the mode throws the resolved executable path away.
SetOfflineClearsCache(b) ==
    /\ phase = "ready"
    /\ \A t \in Threads : pc[t] = "idle"
    /\ offline' = b
    /\ lastSet' = Some(b)
    /\ app_exe' = EmptyCell
    /\ UNCHANGED <<cfgVars, envVars, package_cache_lock, locksMade, callVars, auxVars>>

\* Config::set_offline takes `&mut self`: no call on the Config is under way.
SetOffline(b) ==
    /\ phase = "ready"
    /\ \A t \in Threads : pc[t] = "idle"
    /\ offline' = b
    /\ lastSet' = Some(b)
    /\ UNCHANGED <<cfgVars, envVars, cellVars, callVars, auxVars>>

(***************************************************************************)
(* The process environment changes under the running program.              *)
(***************************************************************************)
EnvChange ==
    /\ phase = "ready"
    /\ \/ /\ envScarb' \in ScarbEnvValues \ {envScarb}
          /\ UNCHANGED <<currentExe, argv0, cwd>>
       \/ /\ currentExe' \in CurrentExeValues \ {currentExe}
          /\ UNCHANGED <<envScarb, argv0, cwd>>
       \/ /\ argv0' \in Argv0Values \ {argv0}
          /\ UNCHANGED <<envScarb, currentExe, cwd>>
       \/ /\ cwd' \in CwdValues \ {cwd}
          /\ UNCHANGED <<envScarb, currentExe, argv0>>
    /\ UNCHANGED <<cfgVars, cellVars, callVars, flagVars, auxVars>>

(***************************************************************************)
(* Config::app_exe: the three strategies and their chain.                  *)
(***************************************************************************)
FromEnv ==
    IF ~IsSome(envScarb) THEN Err("from_env", "$SCARB not set")
    ELSE Canonicalize(Unwrap(envScarb), cwd, "from_env")

FromCurrentExe ==
    IF ~IsSome(currentExe) THEN Err("from_current_exe", "current_exe failed")
    ELSE Canonicalize(Unwrap(currentExe), cwd, "from_current_exe")

FromArgv ==
    IF ~IsSome(argv0) THEN Err("from_argv", "no argv[0]")
    ELSE IF ~IsSome(cwd) THEN Err("from_argv", "current_dir failed")
    ELSE WhichIn(Unwrap(argv0), dirs, Unwrap(cwd), "from_argv")

Ran(name, r) == [strategy |-> name, result |-> r]

\* A bug: the chain asks the operating system before the environment.
StrategyRunsExeFirst ==
    LET r1 == Ran("from_env", FromEnv)
        r2 == Ran("from_current_exe", FromCurrentExe)
        r3 == Ran("from_argv", FromArgv)
    IN IF r2.result.ok THEN <<r2>>
       ELSE IF r1.result.ok THEN <<r2, r1>>
       ELSE <<r2, r1, r3>>

\* The strategies the or_else chain runs, in order, each with its result:
\* the next one runs only on the failure of the one before.
StrategyRuns ==
    LET r1 == Ran("from_env", FromEnv)
        r2 == Ran("from_current_exe", FromCurrentExe)
        r3 == Ran("from_argv", FromArgv)
    IN IF r1.result.ok THEN <<r1>>
       ELSE IF r2.result.ok THEN <<r1, r2>>
       ELSE <<r1, r2, r3>>

\* The value of the chain: or_else keeps a success and replaces a failure
\* by the result of the next strategy; context() wraps what is left.
ChainResult(runs) ==
    Context(runs[Len(runs)].result, "app_exe", "could not get the path to scarb executable")

(***************************************************************************)
(* once_cell::sync::OnceCell as app_exe and package_cache_lock use it.     *)
(* A cell is INCOMPLETE (empty), RUNNING (one caller is inside the         *)
(* initialising closure) or COMPLETE (value set).  A caller that finds the *)
(* cell RUNNING waits for the closure to finish and then looks again.      *)
(***************************************************************************)
\* A bug: the resolved path is returned but not stored.
CellAfterTryInitForgets(r) == EmptyCell

\* A bug: the cell is closed by the first attempt whatever its result.
CellAfterTryInitPoisons(r) == [state |-> "COMPLETE", value |-> Some(r.val)]

\* get_or_try_init after the closure returned r: Ok stores the value, Err
\* leaves the cell empty.
CellAfterTryInit(r) ==
    IF r.ok THEN [state |-> "COMPLETE", value |-> Some(r.val)] ELSE EmptyCell

\* A bug: the lock is returned but not stored.
CellAfterInitForgets(v) == EmptyCell

\* get_or_init after the closure returned v.
CellAfterInit(v) == [state |-> "COMPLETE", value |-> Some(v)]

\* A bug: check-then-set, a caller starts the closure whenever no value is
\* stored yet, also while another caller is inside it.
MayInitializeRacy(cell) == cell.state # "COMPLETE"

\* The caller that may start the closure: the one that finds the cell empty
\* and nobody initialising it.
MayInitialize(cell) == cell.state = "INCOMPLETE"

CallsStarted ==
    Len(exeLog) + Len(lockLog) + Cardinality({t \in Threads : pc[t] # "idle"})

ExeEntry(n, r, runs) == [started |-> n, ret |-> r, ran |-> runs]

\* A thread looks at the app_exe cell: it returns the cached path, becomes
\* the initialiser, or waits for the initialiser.
AppExeLook(t, n) ==
    IF app_exe.state = "COMPLETE"
    THEN /\ exeLog' = Append(exeLog, ExeEntry(n, Ok(Unwrap(app_exe.value)), <<>>))
         /\ pc' = [pc EXCEPT ![t] = "idle"]
         /\ started' = [started EXCEPT ![t] = 0]
         /\ UNCHANGED app_exe
    ELSE IF MayInitialize(app_exe)
    THEN /\ app_exe' = [app_exe EXCEPT !.state = "RUNNING"]
         /\ pc' = [pc EXCEPT ![t] = "exe_init"]
         /\ started' = [started EXCEPT ![t] = n]
         /\ UNCHANGED exeLog
    ELSE /\ pc' = [pc EXCEPT ![t] = "exe_wait"]
         /\ started' = [started EXCEPT ![t] = n]
         /\ UNCHANGED <<app_exe, exeLog>>

\* Config::app_exe is called.
AppExeCall(t) ==
    /\ phase = "ready"
    /\ pc[t] = "idle"
    /\ CallsStarted < MaxCalls
    /\ AppExeLook(t, Len(exeLog))
    /\ UNCHANGED <<cfgVars, envVars, package_cache_lock, locksMade, lockLog, flagVars, auxVars>>

\* A bug: the waiters are released by a stored value only, so that the
\* failure of the initialiser leaves them blocked.
AppExeWakeOnSuccessOnly(t) ==
    /\ pc[t] = "exe_wait"
    /\ app_exe.state = "COMPLETE"
    /\ AppExeLook(t, started[t])
    /\ UNCHANGED <<cfgVars, envVars, package_cache_lock, locksMade, lockLog, flagVars, auxVars>>

\* A waiting caller of app_exe is woken when the initialiser has finished.
AppExeWake(t) ==
    /\ pc[t] = "exe_wait"
    /\ app_exe.state # "RUNNING"
    /\ AppExeLook(t, started[t])
    /\ UNCHANGED <<cfgVars, envVars, package_cache_lock, locksMade, lockLog, flagVars, auxVars>>

\* The closure of app_exe runs the chain and get_or_try_init returns.
AppExeInit(t) ==
    /\ pc[t] = "exe_init"
    /\ LET runs == StrategyRuns
           r == ChainResult(runs)
       IN /\ app_exe' = CellAfterTryInit(r)
          /\ exeLog' = Append(exeLog, ExeEntry(started[t], r, runs))
    /\ pc' = [pc EXCEPT ![t] = "idle"]
    /\ started' = [started EXCEPT ![t] = 0]
    /\ UNCHANGED <<cfgVars, envVars, package_cache_lock, locksMade, lockLog, flagVars, auxVars>>

(***************************************************************************)
(* Config::package_cache_lock                                              *)
(***************************************************************************)
\* A returned call: the handle it returned (0 when the call ended in the
\* failure of the constructor) and whether it ran the constructor.
LockEntry(n, h, ctor) == [started |-> n, handle |-> h, ctor |-> ctor]

PackageCacheLockLook(t, n) ==
    IF package_cache_lock.state = "COMPLETE"
    THEN /\ lockLog' = Append(lockLog, LockEntry(n, Unwrap(package_cache_lock.value), FALSE))
         /\ pc' = [pc EXCEPT ![t] = "idle"]
         /\ started' = [started EXCEPT ![t] = 0]
         /\ UNCHANGED package_cache_lock
    ELSE IF MayInitialize(package_cache_lock)
    THEN /\ package_cache_lock' = [package_cache_lock EXCEPT !.state = "RUNNING"]
         /\ pc' = [pc EXCEPT ![t] = "lock_init"]
         /\ started' = [started EXCEPT ![t] = n]
         /\ UNCHANGED lockLog
    ELSE /\ pc' = [pc EXCEPT ![t] = "lock_wait"]
         /\ started' = [started EXCEPT ![t] = n]
         /\ UNCHANGED <<package_cache_lock, lockLog>>

\* Config::package_cache_lock is called.
PackageCacheLockCall(t) ==
    /\ phase = "ready"
    /\ pc[t] = "idle"
    /\ CallsStarted < MaxCalls
    /\ PackageCacheLockLook(t, Len(lockLog))
    /\ UNCHANGED <<cfgVars, envVars, app_exe, locksMade, exeLog, flagVars, auxVars>>

PackageCacheLockWake(t) ==
    /\ pc[t] = "lock_wait"
    /\ package_cache_lock.state # "RUNNING"
    /\ PackageCacheLockLook(t, started[t])
    /\ UNCHANGED <<cfgVars, envVars, app_exe, locksMade, exeLog, flagVars, auxVars>>

\* The closure of package_cache_lock builds the AdvisoryLock (a new object,
\* named by its number) and get_or_init stores and returns it.
PackageCacheLockInit(t) ==
    /\ pc[t] = "lock_init"
    /\ locksMade' = locksMade + 1
    /\ package_cache_lock' = CellAfterInit(locksMade + 1)
    /\ lockLog' = Append(lockLog, LockEntry(started[t], locksMade + 1, TRUE))
    /\ pc' = [pc EXCEPT ![t] = "idle"]
    /\ started' = [started EXCEPT ![t] = 0]
    /\ UNCHANGED <<cfgVars, envVars, app_exe, exeLog, flagVars, auxVars>>

\* A bug: the failure is memoised as if it were a handle.
CellAfterUnwindPoisoned == [state |-> "COMPLETE", value |-> Some(0)]

\* The constructor fails: the closure returns an AdvisoryLock and has no
\* error value to return, so the failure unwinds through get_or_init, which
\* leaves the cell as the unwinding leaves it, and reaches the caller.
CellAfterUnwind == EmptyCell

PackageCacheLockInitFails(t) ==
    /\ pc[t] = "lock_init"
    /\ package_cache_lock' = CellAfterUnwind
    /\ lockLog' = Append(lockLog, LockEntry(started[t], 0, TRUE))
    /\ pc' = [pc EXCEPT ![t] = "idle"]
    /\ started' = [started EXCEPT ![t] = 0]
    /\ UNCHANGED <<cfgVars, envVars, app_exe, locksMade, exeLog, flagVars, auxVars>>

Next ==
    \/ ConfigInit
    \/ \E b \in BOOLEAN : SetOffline(b)
    \/ EnvChange
    \/ \E t \in Threads : AppExeCall(t)
    \/ \E t \in Threads : AppExeWake(t)
    \/ \E t \in Threads : AppExeInit(t)
    \/ \E t \in Threads : PackageCacheLockCall(t)
    \/ \E t \in Threads : PackageCacheLockWake(t)
    \/ \E t \in Threads : PackageCacheLockInit(t)

Spec == Init /\ [][Next]_vars

\* The same program with a lock constructor that can fail.
NextLockFail ==
    \/ Next
    \/ \E t \in Threads : PackageCacheLockInitFails(t)

SpecLockFail == Init /\ [][NextLockFail]_vars

(***************************************************************************)
(* A second Config in the same process.  It has its own cells and flag     *)
(* (init builds them with OnceCell::new() and `offline: false`) and reads  *)
(* the same process environment.  Its calls are made from one thread, so   *)
(* each is one step.                                                       *)
(***************************************************************************)
\* A bug: the executable path is kept in one cell for the whole process.
OtherAppExeShared ==
    /\ phase = "ready"
    /\ other.app_exe.state = "INCOMPLETE"
    /\ other' = [other EXCEPT !.app_exe = CellAfterTryInit(ChainResult(StrategyRuns))]
    /\ app_exe' = IF app_exe.state = "INCOMPLETE"
                  THEN CellAfterTryInit(ChainResult(StrategyRuns)) ELSE app_exe
    /\ UNCHANGED <<cfgVars, envVars, package_cache_lock, locksMade, callVars, flagVars>>
    /\ UNCHANGED <<envScarbLog, now, elapsedLog, held, lastUse>>

\* app_exe() on the second Config, its cell still empty.
OtherAppExe ==
    /\ phase = "ready"
    /\ other.app_exe.state = "INCOMPLETE"
    /\ other' = [other EXCEPT !.app_exe = CellAfterTryInit(ChainResult(StrategyRuns))]
    /\ UNCHANGED <<cfgVars, envVars, cellVars, callVars, flagVars>>
    /\ UNCHANGED <<envScarbLog, now, elapsedLog, held, lastUse>>

\* package_cache_lock() on the second Config, its cell still empty.
OtherPackageCacheLock ==
    /\ phase = "ready"
    /\ other.package_cache_lock.state = "INCOMPLETE"
    /\ locksMade' = locksMade + 1
    /\ other' = [other EXCEPT !.package_cache_lock = CellAfterInit(locksMade + 1)]
    /\ UNCHANGED <<cfgVars, envVars, app_exe, package_cache_lock, callVars, flagVars>>
    /\ UNCHANGED <<envScarbLog, now, elapsedLog, held, lastUse>>

\* set_offline(b) on the second Config.
OtherSetOffline(b) ==
    /\ phase = "ready"
    /\ other.offline # b
    /\ other' = [other EXCEPT !.offline = b]
    /\ UNCHANGED <<cfgVars, envVars, cellVars, callVars, flagVars>>
    /\ UNCHANGED <<envScarbLog, now, elapsedLog, held, lastUse>>

\* The calls on the first Config.
ConfigCalls ==
    \/ \E b \in BOOLEAN : SetOffline(b)
    \/ \E t \in Threads : AppExeCall(t)
    \/ \E t \in Threads : AppExeWake(t)
    \/ \E t \in Threads : AppExeInit(t)
    \/ \E t \in Threads : PackageCacheLockCall(t)
    \/ \E t \in Threads : PackageCacheLockWake(t)
    \/ \E t \in Threads : PackageCacheLockInit(t)

NextTwo ==
    \/ ConfigInit
    \/ ConfigCalls
    \/ OtherAppExe
    \/ OtherPackageCacheLock
    \/ \E b \in BOOLEAN : OtherSetOffline(b)

\* Two Configs in a process whose environment stays as it was at the start.
SpecTwo == Init /\ [][NextTwo]_vars

(***************************************************************************)
(* The life of a lock handle.  package_cache_lock<'a>(&'a self) returns    *)
(* &AdvisoryLock<'a>: the reference a caller keeps is a borrow of the      *)
(* Config for as long as the caller keeps it, and a borrowed value can be  *)
(* neither dropped nor moved.                                              *)
(***************************************************************************)
\* A bug: the getter hands out the stored &AdvisoryLock<'static> as it is,
\* so that a handle kept by a caller borrows nothing.
HandleOutlivesConfig == FALSE

\* The transmute of line 160 narrows 'static to the lifetime of &self.
HandleBorrowsConfig == TRUE

\* Thread t holds a borrow of the Config: it is inside a call, or it keeps
\* a handle whose lifetime is that of the borrow.
BorrowLive(t) == pc[t] # "idle" \/ (held[t] # 0 /\ HandleBorrowsConfig)

\* package_cache_lock() called and returned, the caller keeps the reference.
\* A caller that finds another one constructing the lock blocks until the
\* constructor is done.
LockBorrow(t) ==
    /\ phase = "ready"
    /\ pc[t] = "idle"
    /\ held[t] = 0
    /\ package_cache_lock.state # "RUNNING"
    /\ IF MayInitialize(package_cache_lock)
       THEN /\ locksMade' = locksMade + 1
            /\ package_cache_lock' = CellAfterInit(locksMade + 1)
       ELSE UNCHANGED <<locksMade, package_cache_lock>>
    /\ held' = [held EXCEPT ![t] = Unwrap(package_cache_lock'.value)]
    /\ UNCHANGED <<cfgVars, envVars, app_exe, callVars, flagVars>>
    /\ UNCHANGED <<envScarbLog, now, elapsedLog, lastUse, other>>

\* The caller uses the handle it keeps; `alive` tells whether the Config the
\* handle came from still exists at that moment.
HandleUse(t) ==
    /\ held[t] # 0
    /\ lastUse' = Some([thread |-> t, handle |-> held[t], alive |-> phase = "ready"])
    /\ lastUse' # lastUse
    /\ UNCHANGED <<cfgVars, envVars, cellVars, callVars, flagVars>>
    /\ UNCHANGED <<envScarbLog, now, elapsedLog, held, other>>

\* The caller lets go of the reference.
HandleRelease(t) ==
    /\ held[t] # 0
    /\ held' = [held EXCEPT ![t] = 0]
    /\ UNCHANGED <<cfgVars, envVars, cellVars, callVars, flagVars>>
    /\ UNCHANGED <<envScarbLog, now, elapsedLog, lastUse, other>>

\* The owner drops the Config, which no live borrow allows.  The cells and
\* what they hold go with it.
ConfigDrop ==
    /\ phase = "ready"
    /\ \A t \in Threads : ~BorrowLive(t)
    /\ phase' = "dropped"
    /\ app_exe' = EmptyCell
    /\ package_cache_lock' = EmptyCell
    /\ UNCHANGED <<manifest_path, target_dir_override, dirs, target_dir, creation_time, scarb_log>>
    /\ UNCHANGED <<envVars, locksMade, callVars, flagVars, auxVars>>

NextLifetime ==
    \/ ConfigInit
    \/ \E t \in Threads : PackageCacheLockCall(t)
    \/ \E t \in Threads : PackageCacheLockWake(t)
    \/ \E t \in Threads : PackageCacheLockInit(t)
    \/ \E t \in Threads : LockBorrow(t)
    \/ \E t \in Threads : HandleUse(t)
    \/ \E t \in Threads : HandleRelease(t)
    \/ ConfigDrop

\* A Config from construction to destruction, with callers that keep the
\* lock handle.
SpecLifetime == Init /\ [][NextLifetime]_vars

(***************************************************************************)
(* The clock.  Instant::now() never goes back; init() reads it once and    *)
(* elapsed_time() reads it again.                                          *)
(***************************************************************************)
Tick ==
    /\ now < MaxTime
    /\ now' = now + 1
    /\ UNCHANGED <<cfgVars, envVars, cellVars, callVars, flagVars>>
    /\ UNCHANGED <<envScarbLog, elapsedLog, held, lastUse, other>>

\* A bug: the time since the process started, not since init().
ElapsedTimeOfProcess == now

\* self.creation_time.elapsed()
ElapsedTime == now - creation_time

\* elapsed_time() called and returned.
ElapsedTimeCall ==
    /\ phase = "ready"
    /\ Len(elapsedLog) < MaxCalls
    /\ elapsedLog' = Append(elapsedLog, [at |-> now, ret |-> ElapsedTime])
    /\ UNCHANGED <<cfgVars, envVars, cellVars, callVars, flagVars>>
    /\ UNCHANGED <<envScarbLog, now, held, lastUse, other>>

NextClock ==
    \/ ConfigInit
    \/ Tick
    \/ ElapsedTimeCall

\* A Config and the passing of time.
SpecClock == Init /\ [][NextClock]_vars

(***************************************************************************)
(* $SCARB_LOG changes under the running program.                           *)
(***************************************************************************)
EnvLogChange ==
    /\ phase = "ready"
    /\ envScarbLog' \in ScarbLogValues \ {envScarbLog}
    /\ UNCHANGED <<cfgVars, envVars, cellVars, callVars, flagVars>>
    /\ UNCHANGED <<now, elapsedLog, held, lastUse, other>>

InitFrame == InitCore /\ envScarbLog \in ScarbLogValues /\ now = 0

NextFrame ==
    \/ ConfigInit
    \/ ConfigCalls
    \/ EnvLogChange

\* A Config built with or without $SCARB_LOG set, and the variable changing
\* afterwards.
SpecFrame == InitFrame /\ [][NextFrame]_vars

(***************************************************************************)
(* Progress.  A thread inside a closure goes on until the closure returns  *)
(* (the strategies and the lock constructor terminate), and a waiter that  *)
(* stays released is scheduled.                                            *)
(***************************************************************************)
NextLive ==
    \/ ConfigInit
    \/ ConfigCalls

Fairness ==
    \A t \in Threads :
        /\ WF_vars(AppExeInit(t))
        /\ WF_vars(AppExeWake(t))
        /\ WF_vars(PackageCacheLockInit(t))
        /\ WF_vars(PackageCacheLockWake(t))

SpecLive == Init /\ [][NextLive]_vars /\ Fairness

(***************************************************************************)
(* Properties.                                                             *)
(***************************************************************************)
Range(f) == { f[x] : x \in DOMAIN f }

Strategies == { "from_env", "from_current_exe", "from_argv" }

\* How often a returned call of app_exe ran a strategy.
TimesRun(e, name) == Cardinality({ k \in DOMAIN e.ran : e.ran[k].strategy = name })

\* Call j of a log began after call i had returned.
InSequence(lg, i, j) == i < j /\ lg[j].started >= i

\* C1: once a call of app_exe has returned Ok(p), the cell holds p, and every
\* call that returns later returns Ok(p) and runs no strategy, whatever the
\* environment has become.
C1_WriteOnce ==
    \A i \in DOMAIN exeLog :
        exeLog[i].ret.ok =>
            /\ app_exe = [state |-> "COMPLETE", value |-> Some(exeLog[i].ret.val)]
            /\ \A j \in DOMAIN exeLog :
                   j > i => exeLog[j].ret = exeLog[i].ret /\ exeLog[j].ran = <<>>

\* A later call returned the cached path although resolving in the present
\* environment would fail or give another path.
C1_Witness ==
    \E i, j \in DOMAIN exeLog :
        /\ InSequence(exeLog, i, j)
        /\ exeLog[i].ret.ok
        /\ exeLog[j].ret = exeLog[i].ret
        /\ ChainResult(StrategyRuns) # exeLog[i].ret

\* C2: a call of app_exe that runs the closure returns the result of the
\* first strategy that succeeds in the order environment variable, current
\* executable, argv[0], and runs a strategy only after the failure of all
\* earlier ones; it fails only when all three fail.
C2_OrderedFallback ==
    [][ \A t \in Threads :
          (pc[t] = "exe_init" /\ pc'[t] = "idle") =>
              LET e == exeLog'[Len(exeLog')]
                  names == [k \in DOMAIN e.ran |-> e.ran[k].strategy]
              IN /\ FromEnv.ok =>
                        e.ret = FromEnv /\ names = <<"from_env">>
                 /\ (~FromEnv.ok /\ FromCurrentExe.ok) =>
                        e.ret = FromCurrentExe /\ names = <<"from_env", "from_current_exe">>
                 /\ (~FromEnv.ok /\ ~FromCurrentExe.ok) =>
                        /\ names = <<"from_env", "from_current_exe", "from_argv">>
                        /\ FromArgv.ok => e.ret = FromArgv
                        /\ ~FromArgv.ok => ~e.ret.ok
      ]_vars

\* The environment variable won although the current executable resolves to
\* another path.
C2_Witness ==
    \E i \in DOMAIN exeLog :
        /\ Len(exeLog[i].ran) = 1
        /\ FromEnv.ok /\ exeLog[i].ret = FromEnv
        /\ FromCurrentExe.ok /\ FromCurrentExe.val # exeLog[i].ret.val

\* C3: the error of a call of app_exe in which all three strategies failed
\* holds the cause of each of the three failures.
C3_AllCausesRetained ==
    \A i \in DOMAIN exeLog :
        ~exeLog[i].ret.ok =>
            \A k \in DOMAIN exeLog[i].ran :
                exeLog[i].ran[k].result.err[1] \in Range(exeLog[i].ret.err)

\* C4 as claimed: any two calls of app_exe in sequence return the same value
\* and run each strategy at most once between them.
C4_AnyTwoCalls ==
    \A i, j \in DOMAIN exeLog :
        InSequence(exeLog, i, j) =>
            /\ exeLog[i].ret = exeLog[j].ret
            /\ \A s \in Strategies : TimesRun(exeLog[i], s) + TimesRun(exeLog[j], s) <= 1

\* C4 amended: two calls of app_exe in sequence of which the first returns
\* Ok return the same value and run each strategy at most once between them.
C4_TwoCallsAfterSuccess ==
    \A i, j \in DOMAIN exeLog :
        (InSequence(exeLog, i, j) /\ exeLog[i].ret.ok) =>
            /\ exeLog[i].ret = exeLog[j].ret
            /\ \A s \in Strategies : TimesRun(exeLog[i], s) + TimesRun(exeLog[j], s) <= 1

\* The first of two calls in sequence resolved the path by running a
\* strategy and the second returned the same path.
C4_Witness ==
    \E i, j \in DOMAIN exeLog :
        /\ InSequence(exeLog, i, j)
        /\ exeLog[i].ret.ok /\ exeLog[i].ran # <<>>
        /\ exeLog[j].ret = exeLog[i].ret

\* C5: over any sequence of calls of package_cache_lock the constructor is
\* run at most once, by the first call, and every call returns the one
\* handle that run built, which is the handle the cell holds.
C5_SingleLockHandle ==
    /\ locksMade <= 1
    /\ \A i \in DOMAIN lockLog :
           /\ lockLog[i].ctor <=> (i = 1)
           /\ lockLog[i].handle = lockLog[1].handle
           /\ lockLog[i].handle # 0
           /\ package_cache_lock.value = Some(lockLog[i].handle)

\* A second call in sequence returned the handle the first one built.
C5_Witness ==
    \E i, j \in DOMAIN lockLog :
        /\ InSequence(lockLog, i, j)
        /\ lockLog[i].ctor
        /\ lockLog[j].handle = lockLog[i].handle

C7_ExactlyOneAttempt ==
    \A i, j \in DOMAIN exeLog :
        (i < j /\ exeLog[j].started < i) =>
            /\ ~(exeLog[i].ran # <<>> /\ exeLog[j].ran # <<>>)
            /\ exeLog[i].ret = exeLog[j].ret

\* C7 amended: at most one run of the strategy chain is under way at any
\* time, and the cell is RUNNING exactly then; at most one run ever
\* succeeds; a call that did not run the chain returns the path of the
\* successful run, which finished before it returned; of two overlapping
\* calls the second runs the chain only if the first failed.
C7_OneAttemptAtATime ==
    /\ Cardinality({ t \in Threads : pc[t] = "exe_init" }) <= 1
    /\ (app_exe.state = "RUNNING") <=> (\E t \in Threads : pc[t] = "exe_init")
    /\ Cardinality({ i \in DOMAIN exeLog : exeLog[i].ran # <<>> /\ exeLog[i].ret.ok }) <= 1
    /\ \A i \in DOMAIN exeLog :
           exeLog[i].ran = <<>> =>
               /\ exeLog[i].ret.ok
               /\ \E k \in 1..(i - 1) :
                      exeLog[k].ran # <<>> /\ exeLog[k].ret = exeLog[i].ret
    /\ \A i, j \in DOMAIN exeLog :
           (i < j /\ exeLog[j].started < i /\ exeLog[j].ran # <<>>) => ~exeLog[i].ret.ok

\* Two calls overlapped: one resolved the path, the other had begun before
\* that one returned and returned the same path without running the chain.
C7_Witness ==
    \E i, j \in DOMAIN exeLog :
        /\ i < j /\ exeLog[j].started < i
        /\ exeLog[i].ran # <<>> /\ exeLog[i].ret.ok
        /\ exeLog[j].ran = <<>> /\ exeLog[j].ret = exeLog[i].ret

\* C8: at most one caller of package_cache_lock is inside the constructor,
\* and the cell is RUNNING exactly then; the constructor has run exactly
\* once as soon as any call has returned; a call that did not run it returns
\* after the one that did; all calls return the one handle built.
C8_OneConstruction ==
    /\ Cardinality({ t \in Threads : pc[t] = "lock_init" }) <= 1
    /\ (package_cache_lock.state = "RUNNING") <=> (\E t \in Threads : pc[t] = "lock_init")
    /\ Cardinality({ i \in DOMAIN lockLog : lockLog[i].ctor }) <= 1
    /\ lockLog # <<>> => locksMade = 1
    /\ \A i \in DOMAIN lockLog :
           /\ lockLog[i].handle = locksMade
           /\ ~lockLog[i].ctor => \E k \in 1..(i - 1) : lockLog[k].ctor

\* Two calls overlapped: one built the lock, the other had begun before that
\* one returned and returned the same handle.
C8_Witness ==
    \E i, j \in DOMAIN lockLog :
        /\ i < j /\ lockLog[j].started < i
        /\ lockLog[i].ctor /\ ~lockLog[j].ctor
        /\ lockLog[j].handle = lockLog[i].handle

\* C9: offline() is false on a fresh Config and afterwards the argument of
\* the latest set_offline; network_allowed() is its negation.
C9_OfflineFlag ==
    phase = "ready" =>
        LET expected == IF IsSome(lastSet) THEN Unwrap(lastSet) ELSE FALSE
        IN /\ Offline = expected
           /\ NetworkAllowed = ~expected

\* set_offline(true) has been called and the network is not allowed.
C9_Witness ==
    /\ phase = "ready"
    /\ lastSet = Some(TRUE)
    /\ Offline /\ ~NetworkAllowed

\* C10: with an override target_dir() is the override itself, whatever the
\* manifest path; without one it is the manifest path with its last
\* component replaced by "target" (/proj/Scarb.toml gives /proj/target).
C10_TargetDir ==
    phase = "ready" =>
        /\ IsSome(target_dir_override) => TargetDir = target_dir_override
        /\ ~IsSome(target_dir_override) =>
               TargetDir = Some(SubSeq(manifest_path, 1, Len(manifest_path) - 1) \o <<"target">>)
        /\ (manifest_path = <<"/", "proj", "Scarb.toml">> /\ ~IsSome(target_dir_override)) =>
               TargetDir = Some(<<"/", "proj", "target">>)

\* A Config built for /proj/Scarb.toml without an override.
C10_Witness ==
    /\ phase = "ready"
    /\ manifest_path = <<"/", "proj", "Scarb.toml">>
    /\ ~IsSome(target_dir_override)
    /\ TargetDir = Some(<<"/", "proj", "target">>)

\* C11: root() is the manifest path without its final component whenever
\* the manifest path has a parent; when it has none, root() panics, and so
\* does init() unless it was given an override.
C11_Root ==
    LET hasParent == ManifestPath # <<>> /\ ManifestPath[Len(ManifestPath)] # "/"
    IN /\ phase = "ready" =>
              IF hasParent
              THEN /\ ~Root.panic
                   /\ Root.val \o <<ManifestPath[Len(ManifestPath)]>> = ManifestPath
              ELSE Root.panic
       /\ phase = "panicked" <=>
              (phase # "uninit" /\ ~hasParent /\ ~IsSome(target_dir_override))

\* A Config for /proj/Scarb.toml whose root() is /proj.
C11_Witness ==
    /\ phase = "ready"
    /\ ManifestPath = <<"/", "proj", "Scarb.toml">>
    /\ Root = Returned(<<"/", "proj">>)

\* A Config built with an override for a manifest path without a parent:
\* init() returned and root() panics.
C11_WitnessPanic ==
    /\ phase = "ready"
    /\ ManifestPath = <<"/">>
    /\ Root.panic

\* C12: a step that changes the second Config's caches or flag changes
\* neither the first Config's caches and flag nor its calls, and a step of
\* a call on the first Config changes nothing of the second; the first
\* Config's caches are empty as long as it has not been queried itself,
\* whatever the second one has cached.
C12_Independence ==
    /\ [][ LET mine == <<app_exe, package_cache_lock, offline>>
               calls == <<callVars, lastSet>>
           IN /\ other' # other => (mine' = mine /\ calls' = calls)
              /\ (mine' # mine \/ calls' # calls) => other' = other
         ]_vars
    /\ [](/\ (exeLog = <<>> /\ \A t \in Threads : pc[t] # "exe_init")
              => app_exe = EmptyCell
          /\ (lockLog = <<>> /\ \A t \in Threads : pc[t] # "lock_init")
              => package_cache_lock = EmptyCell
          /\ lastSet = None => ~offline)

\* The second Config has resolved its path, built its lock and gone
\* offline; the first, not yet queried, has empty caches and is online.
C12_Witness ==
    /\ phase = "ready"
    /\ other.app_exe.state = "COMPLETE"
    /\ other.package_cache_lock.state = "COMPLETE"
    /\ other.offline
    /\ app_exe = EmptyCell /\ package_cache_lock = EmptyCell /\ ~offline

C14_ElapsedTime ==
    /\ \A i \in DOMAIN elapsedLog :
           /\ elapsedLog[i].ret = elapsedLog[i].at - creation_time
           /\ elapsedLog[i].ret >= 0
    /\ \A i, j \in DOMAIN elapsedLog : i < j => elapsedLog[i].ret <= elapsedLog[j].ret

\* A Config created at time 1, asked at once and again two ticks later.
C14_Witness ==
    /\ creation_time = 1
    /\ Len(elapsedLog) = 2
    /\ elapsedLog[1].ret = 0
    /\ elapsedLog[2].ret = 2

\* What from_argv returned in the call that ends with this step, if the
\* chain got as far as from_argv.
ArgvResultOf(e) == e.ran[3].result

\* C15: when the first two strategies have failed, from_argv fails without
\* an argv[0] or a working directory, finds a one-component argv[0] in the
\* first directory of the search path that has it, and returns a
\* several-component argv[0] canonicalised against the working directory.
C15_ArgvStrategy ==
    [][ \A t \in Threads :
          (pc[t] = "exe_init" /\ pc'[t] = "idle" /\ Len(exeLog'[Len(exeLog')].ran) = 3) =>
              LET r == ArgvResultOf(exeLog'[Len(exeLog')])
              IN IF ~IsSome(argv0) \/ ~IsSome(cwd) THEN ~r.ok
                 ELSE IF Len(Unwrap(argv0)) = 1
                 THEN LET hits == {k \in DOMAIN dirs :
                                      IsSome(ResolveFile(Join(dirs[k], Unwrap(argv0))))}
                      IN IF hits = {} THEN ~r.ok
                         ELSE /\ r.ok
                              /\ \E k \in hits :
                                    /\ \A h \in hits : k <= h
                                    /\ r.val = Join(dirs[k], Unwrap(argv0))
                 ELSE LET c == Canonicalize(Unwrap(argv0), cwd, "from_argv")
                      IN r.ok = c.ok /\ r.val = c.val
      ]_vars

\* C15, as the code has it: a several-component argv[0] that names a file
\* comes back joined to the working directory, "." and links left in.
C15_ArgvAsJoined ==
    [][ \A t \in Threads :
          (pc[t] = "exe_init" /\ pc'[t] = "idle" /\ Len(exeLog'[Len(exeLog')].ran) = 3) =>
              LET r == ArgvResultOf(exeLog'[Len(exeLog')])
              IN IF ~IsSome(argv0) \/ ~IsSome(cwd) THEN ~r.ok
                 ELSE IF Len(Unwrap(argv0)) = 1
                 THEN LET hits == {k \in DOMAIN dirs :
                                      IsSome(ResolveFile(Join(dirs[k], Unwrap(argv0))))}
                      IN IF hits = {} THEN ~r.ok
                         ELSE /\ r.ok
                              /\ \E k \in hits :
                                    /\ \A h \in hits : k <= h
                                    /\ r.val = Join(dirs[k], Unwrap(argv0))
                 ELSE LET c == Canonicalize(Unwrap(argv0), cwd, "from_argv")
                      IN /\ r.ok = c.ok
                         /\ r.ok => r.val = Join(Unwrap(cwd), Unwrap(argv0))
      ]_vars

\* from_argv has returned /w/./scarb, a link to /opt/scarb.
C15_JoinedNotCanonical ==
    \E i \in DOMAIN exeLog :
        /\ Len(exeLog[i].ran) = 3
        /\ exeLog[i].ret = Ok(<<"/", "w", ".", "scarb">>)

\* from_argv has found the bare name in the second directory of the search
\* path.
C15_PathSearchHit ==
    \E i \in DOMAIN exeLog :
        /\ Len(exeLog[i].ran) = 3
        /\ exeLog[i].ret = Ok(<<"/", "opt", "scarb">>)

\* C16: a call of app_exe that returns an error leaves the cell empty; a
\* call that follows only failed calls runs the chain, beginning with the
\* environment variable; and the cell is filled only by the step of a call
\* whose chain succeeded, with the path that call returns.
C16_FailureNotCached ==
    /\ [][ /\ (Len(exeLog') > Len(exeLog) /\ ~exeLog'[Len(exeLog')].ret.ok)
               => app_exe' = EmptyCell
           /\ (app_exe.state # "COMPLETE" /\ app_exe'.state = "COMPLETE")
               => /\ Len(exeLog') = Len(exeLog) + 1
                  /\ LET e == exeLog'[Len(exeLog')]
                     IN /\ e.ret.ok
                        /\ e.ran # <<>>
                        /\ app_exe'.value = Some(e.ret.val)
         ]_vars
    /\ [](\A j \in DOMAIN exeLog :
              (\A i \in 1..(j - 1) : ~exeLog[i].ret.ok)
                  => /\ exeLog[j].ran # <<>>
                     /\ exeLog[j].ran[1].strategy = "from_env")

\* A call failed, the environment changed, and the call made after it ran
\* the chain again, succeeded and filled the cell.
C16_Witness ==
    /\ Len(exeLog) = 2
    /\ ~exeLog[1].ret.ok
    /\ InSequence(exeLog, 1, 2)
    /\ exeLog[2].ret.ok
    /\ exeLog[2].ran # <<>>
    /\ app_exe = [state |-> "COMPLETE", value |-> Some(exeLog[2].ret.val)]

\* C17: init() stores the value of $SCARB_LOG, or the empty string, as
\* scarb_log; after init() no step changes manifest_path, the directory
\* layout, target_dir, scarb_log or creation_time; a step of set_offline
\* changes neither cell; a step of app_exe changes neither the lock cell
\* nor the flag; a step of package_cache_lock changes neither the
\* executable-path cell nor the flag.
C17_Frame ==
    [][ LET exeStep == exeLog' # exeLog
                       \/ \E t \in Threads :
                              pc'[t] # pc[t] /\ {pc[t], pc'[t]} \cap {"exe_init", "exe_wait"} # {}
            lockStep == lockLog' # lockLog
                        \/ \E t \in Threads :
                               pc'[t] # pc[t] /\ {pc[t], pc'[t]} \cap {"lock_init", "lock_wait"} # {}
            setStep == offline' # offline \/ lastSet' # lastSet
        IN /\ (phase = "uninit" /\ phase' # "uninit") =>
                  scarb_log' = IF envScarbLog = None THEN "" ELSE Unwrap(envScarbLog)
           /\ phase # "uninit" =>
                  /\ manifest_path' = manifest_path
                  /\ dirs' = dirs
                  /\ target_dir' = target_dir
                  /\ scarb_log' = scarb_log
                  /\ creation_time' = creation_time
                  /\ setStep => (app_exe' = app_exe /\ package_cache_lock' = package_cache_lock)
                  /\ exeStep => (package_cache_lock' = package_cache_lock /\ offline' = offline)
                  /\ lockStep => (app_exe' = app_exe /\ offline' = offline)
                  /\ app_exe' # app_exe => exeStep
                  /\ package_cache_lock' # package_cache_lock => lockStep
      ]_vars

\* A Config built under SCARB_LOG=debug keeps "debug" after the variable was
\* unset, and keeps its resolved path and its lock after going offline.
C17_Witness ==
    /\ phase = "ready"
    /\ scarb_log = "debug"
    /\ envScarbLog = None
    /\ offline
    /\ app_exe.state = "COMPLETE"
    /\ package_cache_lock.state = "COMPLETE"

\* C18: every call of app_exe or package_cache_lock that has begun returns,
\* whatever other calls on the Config are under way and whether or not the
\* initialiser of the executable path fails.
C18_CallsReturn ==
    \A t \in Threads : (pc[t] # "idle") ~> (pc[t] = "idle")

\* Two calls of app_exe overlapped; the one that ran the chain first failed,
\* and the one that waited for it was released, ran the chain and returned.
C18_Witness ==
    /\ \A t \in Threads : pc[t] = "idle"
    /\ Len(exeLog) = 2
    /\ exeLog[1].started = 0 /\ exeLog[2].started = 0
    /\ ~exeLog[1].ret.ok
    /\ exeLog[2].ran # <<>>

====
